---- MODULE Spec2Model ----
(***************************************************************************)
(* Delivery Time Prediction API (src/main.py): the request handlers        *)
(* /predict, /predict-with-address, /geocode, / and /health over the       *)
(* model artifact loaded at import time.                                   *)
(*                                                                         *)
(* Fixed point.  Python floats are modelled as integers in thousandths:    *)
(* minutes and km/h in 1/1000, kilometres in metres.  Latitudes and        *)
(* longitudes are in microdegrees.  A float that may be NaN (everything    *)
(* derived from the model's output) is a record [nan, v].                  *)
(***************************************************************************)
EXTENDS Integers, Sequences, FiniteSets, TLC

VARIABLES artifact, w

vars == <<artifact, w>>

(* Number of model-declared feature names that assembly does not produce.  *)
MaxAbsentFeatures == 1

(* Number of requests in progress at once when requests run concurrently   *)
(* (FastAPI runs each def handler on a thread of its pool).                *)
NumWorkers == 2

---------------------------------------------------------------------------
(* Floats *)

Fl(x) == [nan |-> FALSE, v |-> x]

NaN == [nan |-> TRUE, v |-> 0]

FAdd(a, x) == IF a.nan THEN NaN ELSE Fl(a.v + x)

(* round(x, 2) of a non-negative float: the two-decimal values Python may  *)
(* return.  Off a decimal tie the result is the nearest; on a tie (x ends  *)
(* in 5 thousandths) it is decided by the binary value of the float, which *)
(* the fixed-point value does not determine, so both neighbours are kept.  *)
round2(x) ==
    LET lo == (x \div 10) * 10
        r == x % 10
    IN  IF r < 5 THEN {lo}
        ELSE IF r > 5 THEN {lo + 10}
        ELSE {lo, lo + 10}

(* round(nan, 2) is nan *)
fround2(a) == IF a.nan THEN {NaN} ELSE {Fl(y) : y \in round2(a.v)}

(* n / d in thousandths, truncated (n >= 0, d > 0), without leaving 32 bits *)
Quot(n, d) == (n \div d) * 1000 + ((n % d) * 1000) \div d

Max(a, b) == IF a >= b THEN a ELSE b

---------------------------------------------------------------------------
(* Sample coordinates (microdegrees) *)

Indore == [latitude |-> 22745049, longitude |-> 75892471]
Vijay == [latitude |-> 22765049, longitude |-> 75912571]
Door == [latitude |-> 22745059, longitude |-> 75892471]
Edge == [latitude |-> 23644400, longitude |-> 75892471]
Over == [latitude |-> 23644449, longitude |-> 75892471]
Delhi == [latitude |-> 28613900, longitude |-> 77209000]

Origins == {Indore, Vijay}

Places == {Indore, Vijay, Door, Edge, Over, Delhi}

(* R * c of the haversine formula, in metres, for the sample coordinates   *)
(* (evaluated with the source's formula, R = 6371).                        *)
HaversineTable ==
    { <<Indore, Vijay, 3032>>, <<Indore, Door, 1>>, <<Indore, Edge, 100003>>,
      <<Indore, Over, 100009>>, <<Indore, Delhi, 665770>>,
      <<Vijay, Door, 3031>>, <<Vijay, Edge, 97801>>, <<Vijay, Over, 97806>>,
      <<Vijay, Delhi, 663191>> }

haversine(lat1, lon1, lat2, lon2) ==
    LET p == [latitude |-> lat1, longitude |-> lon1]
        q == [latitude |-> lat2, longitude |-> lon2]
    IN  IF p = q THEN 0
        ELSE LET e == CHOOSE t \in HaversineTable :
                          \/ t[1] = p /\ t[2] = q
                          \/ t[1] = q /\ t[2] = p
             IN  e[3]

(* calculate_distance: round(R * c, 2); the set of values round may give   *)
calculate_distance(lat1, lon1, lat2, lon2) ==
    round2(haversine(lat1, lon1, lat2, lon2))

(* f"{distance:.2f}": the digits before and after the decimal point        *)
fmt2f(x) ==
    LET h == (CHOOSE y \in round2(x) : \A z \in round2(x) : y <= z) \div 10
    IN  [units |-> h \div 100, hundredths |-> h % 100]

---------------------------------------------------------------------------
(* Request models *)

WeatherConditions == {"Sunny", "Stormy", "Cloudy", "Fog", "Sandstorms", "Windy"}
RoadTrafficDensity == {"Low", "Medium", "High", "Jam"}
TypeOfOrder == {"Snack", "Meal", "Drinks", "Buffet"}
TypeOfVehicle == {"motorcycle", "scooter", "electric_scooter"}
City == {"Urban", "Semi-Urban", "Metropolitian"}
Festival == {"Yes", "No"}

(* Constraints that leave the upper limits of the calendar fields and the *)
(* length of city_code unchecked                                           *)
CommonFieldsValidLax(r) ==
    /\ r.delivery_person_age >= 18 /\ r.delivery_person_age <= 65
    /\ r.delivery_person_ratings >= 1000 /\ r.delivery_person_ratings <= 5000
    /\ r.weather_conditions \in WeatherConditions
    /\ r.road_traffic_density \in RoadTrafficDensity
    /\ r.type_of_order \in TypeOfOrder
    /\ r.type_of_vehicle \in TypeOfVehicle
    /\ r.city \in City
    /\ r.festival \in Festival
    /\ r.day >= 1 /\ r.month >= 1 /\ r.day_of_week >= 0
    /\ r.is_weekend >= 0 /\ r.hour >= 0 /\ r.is_rush_hour >= 0
    /\ r.vehicle_condition >= 0 /\ r.vehicle_condition <= 3
    /\ r.multiple_deliveries >= 0 /\ r.multiple_deliveries <= 4
    /\ r.order_prepare_time >= 0 /\ r.order_prepare_time <= 180000

(* The constraints shared by DeliveryRequest and AddressBasedRequest *)
CommonFieldsValid(r) ==
    /\ r.delivery_person_age >= 18 /\ r.delivery_person_age <= 65
    /\ r.delivery_person_ratings >= 1000 /\ r.delivery_person_ratings <= 5000
    /\ r.weather_conditions \in WeatherConditions
    /\ r.road_traffic_density \in RoadTrafficDensity
    /\ r.type_of_order \in TypeOfOrder
    /\ r.type_of_vehicle \in TypeOfVehicle
    /\ r.city \in City
    /\ r.festival \in Festival
    /\ r.day >= 1 /\ r.day <= 31
    /\ r.month >= 1 /\ r.month <= 12
    /\ r.day_of_week >= 0 /\ r.day_of_week <= 6
    /\ r.is_weekend >= 0 /\ r.is_weekend <= 1
    /\ r.hour >= 0 /\ r.hour <= 23
    /\ r.is_rush_hour >= 0 /\ r.is_rush_hour <= 1
    /\ r.vehicle_condition >= 0 /\ r.vehicle_condition <= 3
    /\ r.multiple_deliveries >= 0 /\ r.multiple_deliveries <= 4
    /\ r.order_prepare_time >= 0 /\ r.order_prepare_time <= 180000
    /\ Len(r.city_code) >= 3 /\ Len(r.city_code) <= 4

(* class DeliveryRequest: the Field constraints *)
DeliveryRequest(r) ==
    /\ r.restaurant_latitude >= -90000000 /\ r.restaurant_latitude <= 90000000
    /\ r.restaurant_longitude >= -180000000 /\ r.restaurant_longitude <= 180000000
    /\ r.delivery_latitude >= -90000000 /\ r.delivery_latitude <= 90000000
    /\ r.delivery_longitude >= -180000000 /\ r.delivery_longitude <= 180000000
    /\ CommonFieldsValid(r)

(* class AddressBasedRequest: the three strings are required, the rest is  *)
(* constrained as in DeliveryRequest                                       *)
AddressBasedRequest(r) == CommonFieldsValid(r)

(* The fields other than the locations, as the Streamlit form sends them   *)
CommonFields ==
    [delivery_person_age |-> 28, delivery_person_ratings |-> 4500,
     weather_conditions |-> "Sunny", road_traffic_density |-> "Medium",
     type_of_order |-> "Meal", type_of_vehicle |-> "motorcycle",
     city |-> "Urban", festival |-> "No",
     day |-> 15, month |-> 12, day_of_week |-> 3, is_weekend |-> 0,
     hour |-> 18, is_rush_hour |-> 1,
     vehicle_condition |-> 2, multiple_deliveries |-> 0,
     order_prepare_time |-> 15000, city_code |-> "INDO"]

Merge(f, g) == [k \in DOMAIN f \cup DOMAIN g |-> IF k \in DOMAIN f THEN f[k] ELSE g[k]]

(* order_prepare_time values a client sends (thousandths of a minute)      *)
PrepTimes == {0, 12345, 15000, 180000}

(* city_code values a client sends: fitted, and 3-4 characters not fitted  *)
CityCodes == {"INDO", "XYZ"}

(* Common fields that pass validation *)
ValidCommon ==
    { [CommonFields EXCEPT !.order_prepare_time = p, !.city_code = c] :
          p \in PrepTimes, c \in CityCodes }

(* Common fields with one field outside its range or enumeration *)
InvalidCommon ==
    { [CommonFields EXCEPT !.delivery_person_age = 17],
      [CommonFields EXCEPT !.delivery_person_age = 66],
      [CommonFields EXCEPT !.delivery_person_ratings = 999],
      [CommonFields EXCEPT !.delivery_person_ratings = 5500],
      [CommonFields EXCEPT !.weather_conditions = "Rainy"],
      [CommonFields EXCEPT !.road_traffic_density = "Very High"],
      [CommonFields EXCEPT !.type_of_order = "Dessert"],
      [CommonFields EXCEPT !.type_of_vehicle = "bicycle"],
      [CommonFields EXCEPT !.city = "Metropolitan"],
      [CommonFields EXCEPT !.festival = "Maybe"],
      [CommonFields EXCEPT !.day = 0],
      [CommonFields EXCEPT !.day = 32],
      [CommonFields EXCEPT !.month = 13],
      [CommonFields EXCEPT !.day_of_week = 7],
      [CommonFields EXCEPT !.is_weekend = 2],
      [CommonFields EXCEPT !.hour = 24],
      [CommonFields EXCEPT !.is_rush_hour = -1],
      [CommonFields EXCEPT !.vehicle_condition = 4],
      [CommonFields EXCEPT !.multiple_deliveries = 5],
      [CommonFields EXCEPT !.order_prepare_time = -1],
      [CommonFields EXCEPT !.order_prepare_time = 180001],
      [CommonFields EXCEPT !.city_code = "IN"],
      [CommonFields EXCEPT !.city_code = "INDOR"] }

Coordinates(p, q) ==
    [restaurant_latitude |-> p.latitude, restaurant_longitude |-> p.longitude,
     delivery_latitude |-> q.latitude, delivery_longitude |-> q.longitude]

(* Coordinates with a latitude or a longitude outside its range *)
InvalidCoordinates ==
    { [Coordinates(Indore, Vijay) EXCEPT !.restaurant_latitude = -90000001],
      [Coordinates(Indore, Vijay) EXCEPT !.restaurant_longitude = 180000001],
      [Coordinates(Indore, Vijay) EXCEPT !.delivery_latitude = 90000001],
      [Coordinates(Indore, Vijay) EXCEPT !.delivery_longitude = -180000001] }

(* Bodies posted to /predict with one field that does not validate *)
InvalidPredictBodies ==
    { Merge(Coordinates(Indore, Vijay), c) : c \in InvalidCommon }
    \cup { Merge(c, CommonFields) : c \in InvalidCoordinates }

(* Bodies posted to /predict *)
PredictBodies ==
    { Merge(Coordinates(p, q), c) : p \in Origins, q \in Places, c \in ValidCommon }
    \cup InvalidPredictBodies

RestaurantAddresses == {"Vatika Business Park, Sector 49, Gurgaon"}

Addresses == RestaurantAddresses \cup {"DLF Cyber City, Gurgaon"}

ApiKeys == {"key"}

(* Bodies posted to /predict-with-address with one field that does not     *)
(* validate                                                                *)
InvalidAddressBodies ==
    { Merge([restaurant_address |-> a, delivery_address |-> b, opencage_api_key |-> k], c) :
          a \in RestaurantAddresses, b \in Addresses \ RestaurantAddresses,
          k \in ApiKeys, c \in InvalidCommon }

(* Bodies posted to /predict-with-address *)
AddressBodies ==
    { Merge([restaurant_address |-> a, delivery_address |-> b, opencage_api_key |-> k], c) :
          a \in RestaurantAddresses, b \in Addresses, k \in ApiKeys,
          c \in ValidCommon }
    \cup InvalidAddressBodies

---------------------------------------------------------------------------
(* The model artifact: model/dtmodel.pkl *)

Num(n) == [kind |-> "num", n |-> n, s |-> ""]
Str(s) == [kind |-> "str", n |-> 0, s |-> s]

(* The keys of the features dict, in insertion order *)
AssembledNames ==
    <<"Delivery_person_Age", "Delivery_person_Ratings", "Restaurant_latitude",
      "Restaurant_longitude", "Delivery_location_latitude",
      "Delivery_location_longitude", "Weather_conditions", "Road_traffic_density",
      "Vehicle_condition", "Type_of_order", "Type_of_vehicle", "multiple_deliveries",
      "Festival", "City", "City_code", "order_prepare_time", "distance", "day",
      "month", "day_of_week", "is_weekend", "hour", "is_rush_hour", "avg_speed_kmh">>

Range(s) == {s[i] : i \in DOMAIN s}

(* Feature names a retrained model may declare that assembly does not build *)
AbsentLabels == [i \in 1..MaxAbsentFeatures |->
                    IF i = 1 THEN "traffic_x_distance"
                    ELSE IF i = 2 THEN "is_night"
                    ELSE "weather_severity"]

(* artifact["feature_columns"]: the training order, or another model's     *)
(* list: reordered, partial, with a repeated name and with absent names    *)
FeatureColumnChoices ==
    { AssembledNames,
      <<"distance", "avg_speed_kmh">> \o AbsentLabels
          \o <<"City_code", "Weather_conditions", "order_prepare_time", "distance">> }

(* encoder.categories_ of an OrdinalEncoder fitted on the training frame   *)
FittedCategories ==
    [Weather_conditions |-> <<"Cloudy", "Fog", "Sandstorms", "Stormy", "Sunny", "Windy">>,
     Road_traffic_density |-> <<"High", "Jam", "Low", "Medium">>,
     Type_of_order |-> <<"Buffet", "Drinks", "Meal", "Snack">>,
     Type_of_vehicle |-> <<"electric_scooter", "motorcycle", "scooter">>,
     Festival |-> <<"No", "Yes">>,
     City |-> <<"Metropolitian", "Semi-Urban", "Urban">>,
     City_code |-> <<"INDO">>,
     Time_of_day |-> <<"Evening", "Morning">>]

(* encoder.feature_names_in_: the categorical training columns, or those   *)
(* of an encoder fitted on a frame with a column the service does not build *)
EncoderColumnChoices ==
    { <<"Weather_conditions", "Road_traffic_density", "Type_of_order",
        "Type_of_vehicle", "Festival", "City", "City_code">>,
      <<"Weather_conditions", "Road_traffic_density", "Type_of_order",
        "Type_of_vehicle", "Festival", "City", "City_code", "Time_of_day">> }

Artifacts ==
    { [loaded |-> TRUE, model |-> "model",
       encoder |-> [feature_names_in_ |-> c, categories_ |-> FittedCategories],
       feature_columns |-> f] :
          c \in EncoderColumnChoices, f \in FeatureColumnChoices }

(* pickle.load failed: the module raises RuntimeError at import *)
NotLoaded ==
    [loaded |-> FALSE, model |-> "none",
     encoder |-> [feature_names_in_ |-> <<>>, categories_ |-> FittedCategories],
     feature_columns |-> <<>>]

---------------------------------------------------------------------------
(* Feature assembly: a DataFrame of one row is a sequence of columns       *)

Columns(df) == [i \in DOMAIN df |-> df[i].name]

Col(df, name) == df[CHOOSE i \in DOMAIN df : df[i].name = name]

IndexOf(seq, x) == CHOOSE i \in DOMAIN seq : seq[i] = x

(* The features dict of prepare_features_for_prediction *)
features(data, distance) ==
    LET estimated_delivery_time == Max((data.order_prepare_time * 6) \div 10, 10000)
        avg_speed_kmh == IF estimated_delivery_time > 0
                         THEN Quot(distance * 60, estimated_delivery_time)
                         ELSE 20000
    IN  << [name |-> "Delivery_person_Age", value |-> Num(data.delivery_person_age)],
           [name |-> "Delivery_person_Ratings", value |-> Num(data.delivery_person_ratings)],
           [name |-> "Restaurant_latitude", value |-> Num(data.restaurant_latitude)],
           [name |-> "Restaurant_longitude", value |-> Num(data.restaurant_longitude)],
           [name |-> "Delivery_location_latitude", value |-> Num(data.delivery_latitude)],
           [name |-> "Delivery_location_longitude", value |-> Num(data.delivery_longitude)],
           [name |-> "Weather_conditions", value |-> Str(data.weather_conditions)],
           [name |-> "Road_traffic_density", value |-> Str(data.road_traffic_density)],
           [name |-> "Vehicle_condition", value |-> Num(data.vehicle_condition)],
           [name |-> "Type_of_order", value |-> Str(data.type_of_order)],
           [name |-> "Type_of_vehicle", value |-> Str(data.type_of_vehicle)],
           [name |-> "multiple_deliveries", value |-> Num(data.multiple_deliveries)],
           [name |-> "Festival", value |-> Str(data.festival)],
           [name |-> "City", value |-> Str(data.city)],
           [name |-> "City_code", value |-> Str(data.city_code)],
           [name |-> "order_prepare_time", value |-> Num(data.order_prepare_time)],
           [name |-> "distance", value |-> Num(distance)],
           [name |-> "day", value |-> Num(data.day)],
           [name |-> "month", value |-> Num(data.month)],
           [name |-> "day_of_week", value |-> Num(data.day_of_week)],
           [name |-> "is_weekend", value |-> Num(data.is_weekend)],
           [name |-> "hour", value |-> Num(data.hour)],
           [name |-> "is_rush_hour", value |-> Num(data.is_rush_hour)],
           [name |-> "avg_speed_kmh", value |-> Num(avg_speed_kmh)] >>

(* input_df[cat_cols]: KeyError when a column of the encoder is missing    *)
HasColumns(df, cat_cols) == Range(cat_cols) \subseteq Range(Columns(df))

(* encoder.transform raises ValueError on a category it was not fitted on  *)
KnownCategories(df, enc) ==
    \A c \in Range(enc.feature_names_in_) :
        LET v == Col(df, c).value
        IN  v.kind = "str" /\ v.s \in Range(enc.categories_[c])

(* input_df[cat_cols] = encoder.transform(input_df[cat_cols]): each        *)
(* category becomes its position in the fitted categories                  *)
transform(df, enc) ==
    [i \in DOMAIN df |->
        IF df[i].name \in Range(enc.feature_names_in_)
        THEN [name |-> df[i].name,
              value |-> Num(IndexOf(enc.categories_[df[i].name], df[i].value.s) - 1)]
        ELSE df[i]]

(* A loop that marks the columns it adds with -1 *)
fill_missing_marked(df, feature_columns, k) ==
    LET absent == SelectSeq(feature_columns, LAMBDA c : c \notin Range(Columns(df)))
    IN  df \o [j \in DOMAIN absent |-> [name |-> absent[j], value |-> Num(-1)]]

(* for col in feature_columns: if col not in input_df.columns:             *)
(*     input_df[col] = 0                                                   *)
RECURSIVE fill_missing(_, _, _)
fill_missing(df, feature_columns, k) ==
    IF k > Len(feature_columns) THEN df
    ELSE IF feature_columns[k] \in Range(Columns(df))
         THEN fill_missing(df, feature_columns, k + 1)
         ELSE fill_missing(Append(df, [name |-> feature_columns[k], value |-> Num(0)]),
                           feature_columns, k + 1)

(* An assembly that returns the frame without selecting the columns *)
no_reorder(df, feature_columns) == df

(* input_df = input_df[feature_columns] *)
reorder(df, feature_columns) ==
    [k \in DOMAIN feature_columns |-> Col(df, feature_columns[k])]

(* prepare_features_for_prediction(data, distance) with the loaded         *)
(* artifact art: the returned frame, or the exception raised               *)
prepare_features_for_prediction(art, data, distance) ==
    LET df == features(data, distance)
        enc == art.encoder
    IN  IF ~HasColumns(df, enc.feature_names_in_)
        THEN [ok |-> FALSE, error |-> "KeyError", df |-> <<>>]
        ELSE IF ~KnownCategories(df, enc)
        THEN [ok |-> FALSE, error |-> "ValueError: Found unknown categories", df |-> <<>>]
        ELSE [ok |-> TRUE, error |-> "",
              df |-> reorder(fill_missing(transform(df, enc), art.feature_columns, 1),
                             art.feature_columns)]

---------------------------------------------------------------------------
(* The opaque model and the external geocoding service *)

(* Values of model.predict(input_df)[0], thousandths of a minute *)
Predictions == {-3000, 4999, 5000, 47125, 62340, 120000, 120001, 500000}

(* model.predict returns a float (nan included) or raises *)
ModelOutcomes ==
    { [raises |-> FALSE, value |-> Fl(v)] : v \in Predictions }
    \cup { [raises |-> FALSE, value |-> NaN], [raises |-> TRUE, value |-> NaN] }

(* What requests.get and the OpenCage service do for one lookup: the call  *)
(* raises (timeout, connection failure), or a response arrives with a      *)
(* status code and a JSON body holding at most one result (limit = 1)      *)
LookupOutcomes(places) ==
    { [transport |-> t, status_code |-> 0, json |-> FALSE, results |-> <<>>] :
          t \in {"timeout", "connection_error"} }
    \cup { [transport |-> "ok", status_code |-> 200, json |-> TRUE, results |-> <<p>>] :
               p \in places }
    \cup { [transport |-> "ok", status_code |-> 200, json |-> TRUE, results |-> <<>>],
           [transport |-> "ok", status_code |-> 200, json |-> FALSE, results |-> <<>>],
           [transport |-> "ok", status_code |-> 401, json |-> TRUE, results |-> <<>>],
           [transport |-> "ok", status_code |-> 503, json |-> FALSE, results |-> <<>>] }

NoCoords == [latitude |-> 0, longitude |-> 0]

(* A geocode_address whose except clause returns None *)
geocode_address_swallow(out) ==
    IF out.transport = "ok" /\ out.status_code = 200 /\ out.json /\ out.results # <<>>
    THEN [kind |-> "coords", status_code |-> 0, coords |-> out.results[1]]
    ELSE [kind |-> "none", status_code |-> 0, coords |-> NoCoords]

(* A geocode_address that calls response.raise_for_status(): a reply with  *)
(* a non-success status ends in the except clause                          *)
geocode_address_raise_for_status(out) ==
    IF out.transport # "ok" \/ out.status_code # 200 \/ ~out.json
    THEN [kind |-> "raise", status_code |-> 500, coords |-> NoCoords]
    ELSE IF out.results # <<>>
    THEN [kind |-> "coords", status_code |-> 0, coords |-> out.results[1]]
    ELSE [kind |-> "none", status_code |-> 0, coords |-> NoCoords]

(* geocode_address(address, api_key) given what the lookup did: the        *)
(* coordinates, None, or HTTPException(500, "Geocoding error: ...")        *)
geocode_address(out) ==
    IF out.transport # "ok"
    THEN [kind |-> "raise", status_code |-> 500, coords |-> NoCoords]
    ELSE IF out.status_code = 200
    THEN IF ~out.json
         THEN [kind |-> "raise", status_code |-> 500, coords |-> NoCoords]
         ELSE IF out.results # <<>>
              THEN [kind |-> "coords", status_code |-> 0, coords |-> out.results[1]]
              ELSE [kind |-> "none", status_code |-> 0, coords |-> NoCoords]
    ELSE [kind |-> "none", status_code |-> 0, coords |-> NoCoords]

(* A clip that forgets the upper limit *)
np_clip_lower_only(x, lo, hi) ==
    IF x.nan THEN NaN
    ELSE IF x.v < lo THEN Fl(lo)
    ELSE x

(* np.clip(prediction, lo, hi); nan stays nan *)
np_clip(x, lo, hi) ==
    IF x.nan THEN NaN
    ELSE IF x.v < lo THEN Fl(lo)
    ELSE IF x.v > hi THEN Fl(hi)
    ELSE x

(* A speed that forgets the factor 60: kilometres per minute *)
round2_speed_per_minute(distance, est) ==
    LET n == distance * 100
        q == n \div est
        r == n % est
    IN  IF 2 * r < est THEN {q * 10}
        ELSE IF 2 * r > est THEN {(q + 1) * 10}
        ELSE {q * 10, (q + 1) * 10}

(* round((distance / estimated_delivery_time) * 60, 2), est > 0 *)
round2_speed(distance, est) ==
    LET n == distance * 60 * 100
        q == n \div est
        r == n % est
    IN  IF 2 * r < est THEN {q * 10}
        ELSE IF 2 * r > est THEN {(q + 1) * 10}
        ELSE {q * 10, (q + 1) * 10}

---------------------------------------------------------------------------
(* Request state *)

Null == [null |-> TRUE]

NoDetail == [message |-> "", cause |-> "", distance |-> [units |-> 0, hundredths |-> 0]]

NoResponse == [status_code |-> 0, detail |-> NoDetail, body |-> Null]

Idle ==
    [pc |-> "idle", endpoint |-> "", request |-> Null, coord_request |-> Null,
     rest_coords |-> NoCoords, del_coords |-> NoCoords,
     distance |-> 0, input_df |-> <<>>, prediction |-> NaN, predicted_time |-> NaN,
     result |-> Null, response |-> NoResponse, trace |-> <<>>,
     lookups |-> <<>>, model_calls |-> <<>>]

(* One call of geocode_address: whose address, what the service did, and   *)
(* what the call gave back                                                 *)
Lookup(target, out, result) == [target |-> target, out |-> out, result |-> result.kind]

(* raise HTTPException(status_code, detail): the request ends *)
HTTPException(st, status_code, detail) ==
    [st EXCEPT !.pc = "done",
               !.response = [status_code |-> status_code, detail |-> detail, body |-> Null]]

Detail(message) == [NoDetail EXCEPT !.message = message]

(* FastAPI answers 422 when the body does not validate; the handler is     *)
(* not called                                                              *)
ValidationError(st) == HTTPException(st, 422, Detail("validation error"))

(* Several requests are in progress at once *)
Concurrent == Cardinality(DOMAIN w) > 1

(* What the environment offers a step: every modelled input when requests  *)
(* run one at a time, a sample of them when they run concurrently (the     *)
(* interleavings, not the inputs, are what a concurrent run adds)          *)
Arriving(all, sample) == IF Concurrent THEN sample ELSE all

SamplePredictBodies ==
    { Merge(Coordinates(Indore, Vijay), CommonFields),
      Merge(Coordinates(Indore, Vijay), [CommonFields EXCEPT !.hour = 24]) }

SampleAddressBodies ==
    { Merge([restaurant_address |-> a, delivery_address |-> b, opencage_api_key |-> k],
            CommonFields) :
          a \in RestaurantAddresses, b \in Addresses \ RestaurantAddresses, k \in ApiKeys }

SampleModelOutcomes ==
    { [raises |-> FALSE, value |-> Fl(62340)], [raises |-> TRUE, value |-> NaN] }

SampleLookupOutcomes(p) ==
    { [transport |-> "timeout", status_code |-> 0, json |-> FALSE, results |-> <<>>],
      [transport |-> "ok", status_code |-> 200, json |-> TRUE, results |-> <<>>],
      [transport |-> "ok", status_code |-> 200, json |-> TRUE, results |-> <<p>>] }

(* A service that logs the load failure and starts all the same *)
ReadyDegraded(i) == w[i].pc \in {"idle", "done"}

(* The process serves (the import of the module succeeded) and the worker  *)
(* is free                                                                 *)
Ready(i) == artifact.loaded /\ w[i].pc \in {"idle", "done"}

TypeOK ==
    /\ artifact \in Artifacts \cup {NotLoaded}
    /\ \A i \in DOMAIN w :
          w[i].pc \in {"idle", "distance", "features", "model", "postprocess",
                       "return", "geocode_restaurant", "geocode_delivery", "done"}

Init ==
    /\ artifact \in Artifacts \cup {NotLoaded}
    /\ w = [i \in {1} |-> Idle]

---------------------------------------------------------------------------
(* POST /predict *)

(* A body arrives at /predict; FastAPI validates it against DeliveryRequest *)
(* and calls predict_delivery_time with the parsed request                 *)
predict_request(i) ==
    /\ Ready(i)
    /\ \E body \in Arriving(PredictBodies, SamplePredictBodies) :
          LET st == [Idle EXCEPT !.endpoint = "/predict", !.request = body]
          IN  w' = [w EXCEPT ![i] =
                      IF DeliveryRequest(body)
                      THEN [st EXCEPT !.pc = "distance", !.coord_request = body]
                      ELSE ValidationError(st)]
    /\ UNCHANGED artifact

(* A detail that prints the limit where the distance belongs *)
DistanceTooLargeLimit(distance) ==
    [NoDetail EXCEPT !.message = "Distance too large. Maximum 100km for delivery.",
                     !.distance = fmt2f(100000)]

(* The detail of the 400 raised when distance > 100 *)
DistanceTooLarge(distance) ==
    [NoDetail EXCEPT !.message = "Distance too large. Maximum 100km for delivery.",
                     !.distance = fmt2f(distance)]

(* A handler that assembles and predicts first and tests the distance     *)
(* when it builds the response                                             *)
distance_check_late(st, distance) == [st EXCEPT !.pc = "features"]

(* A distance check that lets a zero distance through *)
distance_check_negative_only(st, distance) ==
    IF distance > 100000
    THEN HTTPException(st, 400, DistanceTooLarge(distance))
    ELSE IF distance < 0
    THEN HTTPException(st, 400, Detail("Invalid coordinates - distance is zero"))
    ELSE [st EXCEPT !.pc = "features"]

(* A distance check that caps the distance at 100 km instead of rejecting *)
distance_check_clamping(st, distance) ==
    IF distance <= 0
    THEN HTTPException(st, 400, Detail("Invalid coordinates - distance is zero"))
    ELSE [st EXCEPT !.pc = "features",
                    !.distance = IF distance > 100000 THEN 100000 ELSE distance]

(* if distance > 100: raise ...; if distance <= 0: raise ... *)
distance_check(st, distance) ==
    IF distance > 100000
    THEN HTTPException(st, 400, DistanceTooLarge(distance))
    ELSE IF distance <= 0
    THEN HTTPException(st, 400, Detail("Invalid coordinates - distance is zero"))
    ELSE [st EXCEPT !.pc = "features"]

(* predict_delivery_time: calculate_distance and the two distance checks   *)
predict_distance(i) ==
    /\ artifact.loaded
    /\ w[i].pc = "distance"
    /\ LET r == w[i].coord_request
       IN  \E distance \in calculate_distance(r.restaurant_latitude, r.restaurant_longitude,
                                             r.delivery_latitude, r.delivery_longitude) :
              LET st == [w[i] EXCEPT !.distance = distance,
                                     !.trace = Append(@, "calculate_distance")]
              IN  w' = [w EXCEPT ![i] = distance_check(st, distance)]
    /\ UNCHANGED artifact

(* except Exception as e: raise HTTPException(500, f"Prediction failed: {e}") *)
PredictionFailed(st, cause) ==
    HTTPException(st, 500, [NoDetail EXCEPT !.message = "Prediction failed", !.cause = cause])

(* A feature step that stores the assembled names in the shared           *)
(* feature_columns                                                         *)
predict_features_writing(i) ==
    /\ artifact.loaded
    /\ w[i].pc = "features"
    /\ LET data == w[i].coord_request
           r == prepare_features_for_prediction(artifact, data, w[i].distance)
           st == [w[i] EXCEPT !.trace = Append(@, "prepare_features_for_prediction")]
       IN  w' = [w EXCEPT ![i] =
                   IF r.ok
                   THEN [st EXCEPT !.pc = "model", !.input_df = r.df]
                   ELSE PredictionFailed(st, r.error)]
    /\ artifact' = [artifact EXCEPT !.feature_columns = AssembledNames]

(* predict_delivery_time: the data dict and prepare_features_for_prediction *)
predict_features(i) ==
    /\ artifact.loaded
    /\ w[i].pc = "features"
    /\ LET data == w[i].coord_request
           r == prepare_features_for_prediction(artifact, data, w[i].distance)
           st == [w[i] EXCEPT !.trace = Append(@, "prepare_features_for_prediction")]
       IN  w' = [w EXCEPT ![i] =
                   IF r.ok
                   THEN [st EXCEPT !.pc = "model", !.input_df = r.df]
                   ELSE PredictionFailed(st, r.error)]
    /\ UNCHANGED artifact

(* A handler that answers with a default prediction when the model raises *)
model_outcome_fallback(st, out) ==
    IF out.raises
    THEN [st EXCEPT !.pc = "postprocess", !.prediction = Fl(30000)]
    ELSE [st EXCEPT !.pc = "postprocess", !.prediction = out.value]

(* prediction = model.predict(input_df)[0] inside the try block *)
model_outcome(st, out) ==
    IF out.raises
    THEN PredictionFailed(st, "model.predict raised")
    ELSE [st EXCEPT !.pc = "postprocess", !.prediction = out.value]

(* predict_delivery_time: prediction = model.predict(input_df)[0] *)
predict_model(i) ==
    /\ artifact.loaded
    /\ w[i].pc = "model"
    /\ \E out \in Arriving(ModelOutcomes, SampleModelOutcomes) :
          LET st == [w[i] EXCEPT !.trace = Append(@, "model.predict"),
                                 !.model_calls = Append(@, out)]
          IN  w' = [w EXCEPT ![i] = model_outcome(st, out)]
    /\ UNCHANGED artifact

(* The dict predict_delivery_time returns (order_date, the wall clock, is  *)
(* left out)                                                               *)
PredictionResult(request, distance, total, prep, est, speed) ==
    [success |-> TRUE,
     predicted_delivery_time_minutes |-> total,
     calculated_distance_km |-> distance,
     breakdown |-> [preparation_time_minutes |-> prep,
                    estimated_delivery_time_minutes |-> est,
                    average_speed_kmh |-> speed],
     conditions |-> [weather |-> request.weather_conditions,
                     traffic |-> request.road_traffic_density,
                     is_rush_hour |-> request.is_rush_hour # 0,
                     is_weekend |-> request.is_weekend # 0,
                     festival |-> request.festival,
                     order_type |-> request.type_of_order],
     geocoded_coordinates |-> Null]

(* predicted_time + 20 *)
WithOffset(predicted_time) == FAdd(predicted_time, 20000)

(* max(predicted_time - prep_time, 5) + 20, the line left commented out *)
EstimatedDeliveryTimeOld(predicted_time, prep_time) ==
    IF predicted_time.nan THEN NaN
    ELSE Fl(Max(predicted_time.v - prep_time, 5000) + 20000)

(* estimated_delivery_time = predicted_time + prep_time *)
EstimatedDeliveryTime(predicted_time, prep_time) == FAdd(predicted_time, prep_time)

(* The dicts predict_delivery_time may return for a prediction: clip,      *)
(* offset, breakdown, each output rounded to two decimals                  *)
prediction_results(request, distance, prediction) ==
    LET predicted_time == np_clip(prediction, 5000, 120000)
        prep_time == request.order_prepare_time
        estimated_delivery_time == EstimatedDeliveryTime(predicted_time, prep_time)
        speeds == IF ~estimated_delivery_time.nan /\ estimated_delivery_time.v > 0
                  THEN round2_speed(distance, estimated_delivery_time.v)
                  ELSE {0}
    IN  { PredictionResult(request, distance, total, prep, est, speed) :
              total \in fround2(WithOffset(predicted_time)),
              prep \in round2(prep_time),
              est \in fround2(estimated_delivery_time),
              speed \in speeds }

(* predict_delivery_time: clip, breakdown and the returned dict *)
predict_result(i) ==
    /\ artifact.loaded
    /\ w[i].pc = "postprocess"
    /\ \E result \in prediction_results(w[i].coord_request, w[i].distance,
                                         w[i].prediction) :
          w' = [w EXCEPT ![i] =
                  [@ EXCEPT !.pc = "return",
                            !.predicted_time = np_clip(w[i].prediction, 5000, 120000),
                            !.trace = Append(@, "np.clip"),
                            !.result = result]]
    /\ UNCHANGED artifact

(* json.dumps(..., allow_nan=False) of the returned dict raises ValueError *)
(* when a float in it is nan                                               *)
JsonCompliant(result) ==
    /\ ~result.predicted_delivery_time_minutes.nan
    /\ ~result.breakdown.estimated_delivery_time_minutes.nan

(* The handler returns: predict_with_addresses first adds the geocoded     *)
(* coordinates to the dict; FastAPI then renders the dict as the 200       *)
(* response, or answers 500 when it cannot be rendered                     *)
respond(i) ==
    /\ artifact.loaded
    /\ w[i].pc = "return"
    /\ LET result == IF w[i].endpoint = "/predict-with-address"
                     THEN [w[i].result EXCEPT !.geocoded_coordinates =
                              [restaurant |-> w[i].rest_coords, delivery |-> w[i].del_coords]]
                     ELSE w[i].result
       IN  w' = [w EXCEPT ![i] =
                   IF JsonCompliant(result)
                   THEN [@ EXCEPT !.pc = "done", !.result = result,
                                  !.response = [status_code |-> 200, detail |-> NoDetail,
                                                body |-> result]]
                   ELSE HTTPException([@ EXCEPT !.result = result], 500,
                                      Detail("Internal Server Error"))]
    /\ UNCHANGED artifact

(* The response of a request with status, detail and body *)
Response(status_code, detail, body) ==
    [status_code |-> status_code, detail |-> detail, body |-> body]

(* predict_delivery_time as one function of the request and of what        *)
(* model.predict does when it is called: the responses POST /predict may   *)
(* give                                                                    *)
predict_delivery_time(art, request, out) ==
    UNION { IF distance > 100000
            THEN {Response(400, DistanceTooLarge(distance), Null)}
            ELSE IF distance <= 0
            THEN {Response(400, Detail("Invalid coordinates - distance is zero"), Null)}
            ELSE LET r == prepare_features_for_prediction(art, request, distance)
                 IN  IF ~r.ok
                     THEN {Response(500, [NoDetail EXCEPT !.message = "Prediction failed",
                                                          !.cause = r.error], Null)}
                     ELSE IF out.raises
                     THEN {Response(500, [NoDetail EXCEPT !.message = "Prediction failed",
                                                          !.cause = "model.predict raised"],
                                    Null)}
                     ELSE { IF JsonCompliant(result)
                            THEN Response(200, NoDetail, result)
                            ELSE Response(500, Detail("Internal Server Error"), Null) :
                                result \in prediction_results(request, distance, out.value) }
            : distance \in calculate_distance(request.restaurant_latitude,
                                              request.restaurant_longitude,
                                              request.delivery_latitude,
                                              request.delivery_longitude) }

---------------------------------------------------------------------------
(* POST /predict-with-address *)

(* A body arrives at /predict-with-address; FastAPI validates it against   *)
(* AddressBasedRequest and calls predict_with_addresses                    *)
address_request(i) ==
    /\ Ready(i)
    /\ \E body \in Arriving(AddressBodies, SampleAddressBodies) :
          LET st == [Idle EXCEPT !.endpoint = "/predict-with-address", !.request = body]
          IN  w' = [w EXCEPT ![i] =
                      IF AddressBasedRequest(body)
                      THEN [st EXCEPT !.pc = "geocode_restaurant"]
                      ELSE ValidationError(st)]
    /\ UNCHANGED artifact

(* A handler that looks the restaurant address up again when the lookup   *)
(* gave no coordinates                                                     *)
after_restaurant_retry(st, rest_coords) ==
    IF rest_coords.kind = "coords"
    THEN [st EXCEPT !.pc = "geocode_delivery", !.rest_coords = rest_coords.coords]
    ELSE st

(* A handler that geocodes both addresses before it tests either result *)
after_restaurant_deferred(st, rest_coords) ==
    [st EXCEPT !.pc = "geocode_delivery", !.rest_coords = rest_coords.coords]

(* if not rest_coords: raise HTTPException(400, ...); an HTTPException     *)
(* raised by geocode_address passes through except HTTPException: raise    *)
after_restaurant(st, rest_coords) ==
    IF rest_coords.kind = "raise"
    THEN HTTPException(st, rest_coords.status_code, Detail("Geocoding error"))
    ELSE IF rest_coords.kind = "none"
    THEN HTTPException(st, 400, Detail("Failed to geocode restaurant address"))
    ELSE [st EXCEPT !.pc = "geocode_delivery", !.rest_coords = rest_coords.coords]

(* predict_with_addresses: rest_coords = geocode_address(...) and its check *)
geocode_restaurant(i) ==
    /\ artifact.loaded
    /\ w[i].pc = "geocode_restaurant"
    /\ \E out \in Arriving(LookupOutcomes(Origins), SampleLookupOutcomes(Indore)) :
          LET rest_coords == geocode_address(out)
              st == [w[i] EXCEPT !.trace = Append(@, "geocode_address:restaurant"),
                                     !.lookups = Append(@, Lookup("restaurant", out,
                                                                  rest_coords))]
          IN  w' = [w EXCEPT ![i] = after_restaurant(st, rest_coords)]
    /\ UNCHANGED artifact

(* A DeliveryRequest built from the coordinates alone: the other fields    *)
(* take their defaults                                                     *)
CoordRequestDefaults(request, rest_coords, del_coords) ==
    Merge(Coordinates(rest_coords, del_coords), CommonFields)

(* coord_request = DeliveryRequest(...) of predict_with_addresses *)
CoordRequest(request, rest_coords, del_coords) ==
    Merge(Coordinates(rest_coords, del_coords),
          [k \in DOMAIN CommonFields |-> request[k]])

(* A handler that tests rest_coords a second time: del_coords of None     *)
(* then fails at del_coords["latitude"] and ends in the generic except     *)
after_delivery_unchecked(st, request, rest_coords, del_coords) ==
    IF del_coords.kind = "raise"
    THEN HTTPException(st, del_coords.status_code, Detail("Geocoding error"))
    ELSE IF del_coords.kind = "none"
            \/ ~DeliveryRequest(CoordRequest(request, rest_coords, del_coords.coords))
    THEN HTTPException(st, 500, Detail("Address-based prediction failed"))
    ELSE [st EXCEPT !.pc = "distance",
                    !.del_coords = del_coords.coords,
                    !.coord_request = CoordRequest(request, rest_coords, del_coords.coords)]

(* if not del_coords: raise ...; coord_request = DeliveryRequest(...) *)
after_delivery(st, request, rest_coords, del_coords) ==
    IF del_coords.kind = "raise"
    THEN HTTPException(st, del_coords.status_code, Detail("Geocoding error"))
    ELSE IF del_coords.kind = "none"
    THEN HTTPException(st, 400, Detail("Failed to geocode delivery address"))
    ELSE IF ~DeliveryRequest(CoordRequest(request, rest_coords, del_coords.coords))
    THEN HTTPException(st, 500, Detail("Address-based prediction failed"))
    ELSE [st EXCEPT !.pc = "distance",
                    !.del_coords = del_coords.coords,
                    !.coord_request = CoordRequest(request, rest_coords, del_coords.coords)]

(* predict_with_addresses: del_coords = geocode_address(...), its check,   *)
(* and the DeliveryRequest handed to predict_delivery_time                 *)
geocode_delivery(i) ==
    /\ artifact.loaded
    /\ w[i].pc = "geocode_delivery"
    /\ \E out \in Arriving(LookupOutcomes(Places), SampleLookupOutcomes(Vijay)) :
          LET del_coords == geocode_address(out)
              st == [w[i] EXCEPT !.trace = Append(@, "geocode_address:delivery"),
                                     !.lookups = Append(@, Lookup("delivery", out,
                                                                  del_coords))]
          IN  w' = [w EXCEPT ![i] =
                      after_delivery(st, w[i].request, w[i].rest_coords, del_coords)]
    /\ UNCHANGED artifact

---------------------------------------------------------------------------
(* POST /geocode, GET / and GET /health *)

geocode_endpoint(i) ==
    /\ Ready(i)
    /\ \E address \in Addresses, api_key \in ApiKeys,
          out \in Arriving(LookupOutcomes(Places), SampleLookupOutcomes(Vijay)) :
          LET result == geocode_address(out)
              st == [Idle EXCEPT !.endpoint = "/geocode",
                                 !.request = [address |-> address, api_key |-> api_key],
                                 !.trace = <<"geocode_address">>,
                                 !.lookups = <<Lookup("address", out, result)>>]
          IN  w' = [w EXCEPT ![i] =
                      IF result.kind = "raise"
                      THEN HTTPException(st, result.status_code, Detail("Geocoding error"))
                      ELSE IF result.kind = "coords"
                      THEN [st EXCEPT !.pc = "done",
                                      !.response = [status_code |-> 200, detail |-> NoDetail,
                                                    body |-> result.coords]]
                      ELSE HTTPException(st, 400,
                               Detail("Geocoding failed - check address and API key"))]
    /\ UNCHANGED artifact

health_check(i) ==
    /\ Ready(i)
    /\ w' = [w EXCEPT ![i] =
                [Idle EXCEPT !.endpoint = "/", !.pc = "done",
                             !.response = [status_code |-> 200, detail |-> NoDetail,
                                           body |-> [status |-> "running",
                                                     model_loaded |-> TRUE,
                                                     features_count |->
                                                         Len(artifact.feature_columns)]]]]
    /\ UNCHANGED artifact

detailed_health(i) ==
    /\ Ready(i)
    /\ w' = [w EXCEPT ![i] =
                [Idle EXCEPT !.endpoint = "/health", !.pc = "done",
                             !.response = [status_code |-> 200, detail |-> NoDetail,
                                           body |-> [status |-> "healthy",
                                                     model_loaded |-> artifact.model # "none",
                                                     encoder_loaded |-> TRUE,
                                                     feature_count |->
                                                         Len(artifact.feature_columns),
                                                     expected_features |->
                                                         artifact.feature_columns]]]]
    /\ UNCHANGED artifact

---------------------------------------------------------------------------

Next ==
    \E i \in DOMAIN w :
        \/ predict_request(i)
        \/ predict_distance(i)
        \/ predict_features(i)
        \/ predict_model(i)
        \/ predict_result(i)
        \/ respond(i)
        \/ address_request(i)
        \/ geocode_restaurant(i)
        \/ geocode_delivery(i)
        \/ geocode_endpoint(i)
        \/ health_check(i)
        \/ detailed_health(i)

Spec == Init /\ [][Next]_vars

(* The artifacts of the concurrent runs: the training order of the feature *)
(* names or another model's list, with the encoder of the training frame   *)
ConcurrentArtifacts ==
    { a \in Artifacts : Len(a.encoder.feature_names_in_) = 7 }

(* The process with NumWorkers requests in progress at once *)
InitConcurrent ==
    /\ artifact \in ConcurrentArtifacts \cup {NotLoaded}
    /\ w = [i \in 1..NumWorkers |-> Idle]

SpecConcurrent == InitConcurrent /\ [][Next]_vars

---------------------------------------------------------------------------
(* Properties *)

PredictEndpoints == {"/predict", "/predict-with-address"}

Has(trace, e) == \E k \in DOMAIN trace : trace[k] = e

(* The request ended with the 200 response of a prediction endpoint *)
Succeeded(i) ==
    /\ w[i].pc = "done"
    /\ w[i].endpoint \in PredictEndpoints
    /\ w[i].response.status_code = 200

(* The request ended with an error response and no prediction *)
Failed(i, status_code) ==
    /\ w[i].pc = "done"
    /\ w[i].response.status_code = status_code
    /\ w[i].response.body = Null

Abs(x) == IF x < 0 THEN -x ELSE x

(* C1: in every success response of predict, whatever the model returned,  *)
(* predicted_delivery_time_minutes is a number in [25, 140].               *)
C1_PredictedTimeInRange ==
    \A i \in DOMAIN w :
        Succeeded(i) =>
            LET total == w[i].response.body.predicted_delivery_time_minutes
            IN  /\ ~total.nan
                /\ total.v >= 25000
                /\ total.v <= 140000

(* A success response whose raw prediction was above 120 and one whose raw *)
(* prediction was below 5 exist only clamped; here the upper one.          *)
C1_Witness ==
    \E i \in DOMAIN w :
        /\ Succeeded(i)
        /\ ~w[i].prediction.nan
        /\ w[i].prediction.v > 120000
        /\ w[i].response.body.predicted_delivery_time_minutes = Fl(140000)

(* C2: once the distance of a prediction request is computed it is the     *)
(* distance of the request's two coordinate pairs; a success response      *)
(* carries that value and it lies in (0, 100]; outside that range the      *)
(* request ends with status 400 and the value is not replaced.             *)
C2_DistanceInvariant ==
    \A i \in DOMAIN w :
        (w[i].endpoint \in PredictEndpoints /\ Has(w[i].trace, "calculate_distance")) =>
            LET r == w[i].coord_request
                d == w[i].distance
            IN  /\ w[i].endpoint = "/predict" => r = w[i].request
                /\ w[i].endpoint = "/predict-with-address" =>
                       r = CoordRequest(w[i].request, w[i].rest_coords, w[i].del_coords)
                /\ d \in calculate_distance(r.restaurant_latitude, r.restaurant_longitude,
                                            r.delivery_latitude, r.delivery_longitude)
                /\ Succeeded(i) =>
                       /\ w[i].response.body.calculated_distance_km = d
                       /\ d > 0 /\ d <= 100000
                /\ (d <= 0 \/ d > 100000) => Failed(i, 400)

C2_Witness ==
    \E i \in DOMAIN w :
        /\ Succeeded(i)
        /\ w[i].response.body.calculated_distance_km = 100000
        /\ haversine(w[i].coord_request.restaurant_latitude,
                     w[i].coord_request.restaurant_longitude,
                     w[i].coord_request.delivery_latitude,
                     w[i].coord_request.delivery_longitude) > 100000

(* C3: a validated request whose city_code the encoder was not fitted on,  *)
(* once it reaches feature assembly, ends with a 4xx response and no       *)
(* prediction.                                                             *)
C3_UnsupportedCategoryClientError ==
    \A i \in DOMAIN w :
        ( /\ w[i].endpoint \in PredictEndpoints
          /\ Has(w[i].trace, "prepare_features_for_prediction")
          /\ w[i].coord_request.city_code
                 \notin Range(artifact.encoder.categories_["City_code"]) ) =>
            /\ w[i].pc = "done"
            /\ w[i].response.status_code >= 400
            /\ w[i].response.status_code <= 499
            /\ w[i].response.body = Null

(* C4: in predict_with_addresses, when a geocode_address call returned     *)
(* None the request has ended with status 400 and neither feature assembly *)
(* nor model.predict ran.                                                  *)
C4_NotFoundNoModel ==
    \A i \in DOMAIN w :
        ( /\ w[i].endpoint = "/predict-with-address"
          /\ \E k \in DOMAIN w[i].lookups : w[i].lookups[k].result = "none" ) =>
            /\ Failed(i, 400)
            /\ ~Has(w[i].trace, "calculate_distance")
            /\ ~Has(w[i].trace, "prepare_features_for_prediction")
            /\ ~Has(w[i].trace, "model.predict")
            /\ w[i].model_calls = <<>>

C4_Witness ==
    \E i \in DOMAIN w :
        /\ w[i].endpoint = "/predict-with-address"
        /\ Len(w[i].lookups) = 2
        /\ w[i].lookups[1].result = "coords"
        /\ w[i].lookups[2].result = "none"
        /\ Failed(i, 400)

(* The service answered, with zero results or a non-success status *)
AnsweredNotFound(out) ==
    /\ out.transport = "ok"
    /\ \/ out.status_code # 200
       \/ out.json /\ out.results = <<>>

(* C5: in every endpoint that calls geocode_address, a lookup that failed  *)
(* in transport ends the request with status 500, a lookup answered with   *)
(* zero results or a non-success status ends it with status 400: never the *)
(* same status, and never a success after a transport failure.             *)
C5_TransportDistinct ==
    \A i \in DOMAIN w :
        \A k \in DOMAIN w[i].lookups :
            LET out == w[i].lookups[k].out
            IN  /\ out.transport # "ok" => Failed(i, 500)
                /\ AnsweredNotFound(out) => Failed(i, 400)

C5_Witness ==
    \E i \in DOMAIN w :
        /\ w[i].endpoint = "/predict-with-address"
        /\ Len(w[i].lookups) = 2
        /\ w[i].lookups[2].out.transport = "timeout"
        /\ Failed(i, 500)

(* C6: when model.predict raised, the request has ended with status 500    *)
(* and the message "Prediction failed", without a prediction, and the      *)
(* model was invoked once.                                                 *)
C6_ModelFailure ==
    \A i \in DOMAIN w :
        (\E k \in DOMAIN w[i].model_calls : w[i].model_calls[k].raises) =>
            /\ Failed(i, 500)
            /\ w[i].response.detail.message = "Prediction failed"
            /\ Len(w[i].model_calls) = 1

C6_Witness ==
    \E i \in DOMAIN w :
        /\ w[i].endpoint = "/predict"
        /\ Len(w[i].model_calls) = 1
        /\ w[i].model_calls[1].raises
        /\ Failed(i, 500)

(* C7: a prediction request whose restaurant and delivery coordinates are  *)
(* equal is rejected by the distance check: status 400, the zero-distance  *)
(* message, no prediction.                                                 *)
C7_SameCoordinatesRejected ==
    \A i \in DOMAIN w :
        ( /\ w[i].endpoint \in PredictEndpoints
          /\ Has(w[i].trace, "calculate_distance")
          /\ w[i].coord_request.restaurant_latitude = w[i].coord_request.delivery_latitude
          /\ w[i].coord_request.restaurant_longitude = w[i].coord_request.delivery_longitude ) =>
            /\ Failed(i, 400)
            /\ w[i].distance <= 0
            /\ w[i].response.detail.message = "Invalid coordinates - distance is zero"
            /\ w[i].model_calls = <<>>

C7_Witness ==
    \E i \in DOMAIN w :
        /\ w[i].endpoint = "/predict"
        /\ w[i].pc = "done"
        /\ Has(w[i].trace, "calculate_distance")
        /\ Coordinates(Indore, Indore) = [k \in DOMAIN Coordinates(Indore, Indore) |->
                                             w[i].request[k]]

(* C8: a prediction request whose computed distance exceeds 100 km is      *)
(* rejected with status 400 and a message that prints that distance with   *)
(* two decimals.                                                           *)
C8_TooFarRejected ==
    \A i \in DOMAIN w :
        ( /\ w[i].endpoint \in PredictEndpoints
          /\ Has(w[i].trace, "calculate_distance")
          /\ w[i].distance > 100000 ) =>
            /\ Failed(i, 400)
            /\ w[i].response.detail.distance =
                   [units |-> w[i].distance \div 1000,
                    hundredths |-> (w[i].distance % 1000) \div 10]
            /\ w[i].model_calls = <<>>

C8_Witness ==
    \E i \in DOMAIN w :
        /\ w[i].endpoint = "/predict"
        /\ w[i].distance = 100010
        /\ Failed(i, 400)
        /\ w[i].response.detail.distance = [units |-> 100, hundredths |-> 1]

(* C9: whenever feature assembly returned a frame, its column names are    *)
(* the model's declared feature names, all of them and no other, in the    *)
(* declared order, whatever the artifact declares.                         *)
C9_FeatureNames ==
    \A i \in DOMAIN w :
        w[i].input_df # <<>> => Columns(w[i].input_df) = artifact.feature_columns

C9_Witness ==
    \E i \in DOMAIN w :
        /\ w[i].input_df # <<>>
        /\ artifact.feature_columns # AssembledNames
        /\ \E k \in DOMAIN artifact.feature_columns :
              artifact.feature_columns[k] \notin Range(AssembledNames)

C11_AverageSpeed ==
    \A i \in DOMAIN w :
        Succeeded(i) =>
            LET body == w[i].response.body
                d == body.calculated_distance_km
                raw == w[i].prediction.v
                clamped == IF raw < 5000 THEN 5000 ELSE IF raw > 120000 THEN 120000 ELSE raw
                est == clamped + w[i].coord_request.order_prepare_time
                shown == body.breakdown.estimated_delivery_time_minutes.v
                speed == body.breakdown.average_speed_kmh
                hundredths == speed \div 10
            IN  /\ shown <= 0 => speed = 0
                /\ shown > 0 =>
                      /\ speed % 10 = 0
                      /\ 2 * Abs(hundredths * est - d * 6000) <= est
                      /\ 2 * Abs(hundredths * shown - d * 6000)
                             <= shown + 5 + 10 * hundredths

(* Indore to Vijay (3.03 km), prediction 62.34, preparation 15: 77.34      *)
(* minutes, 2.35 km/h                                                      *)
C11_Witness ==
    \E i \in DOMAIN w :
        /\ Succeeded(i)
        /\ w[i].response.body.calculated_distance_km = 3030
        /\ w[i].response.body.breakdown.estimated_delivery_time_minutes = Fl(77340)
        /\ w[i].response.body.breakdown.average_speed_kmh = 2350

(* The model outcomes a finished request may have met *)
OutcomesOf(i) ==
    IF w[i].model_calls = <<>> THEN ModelOutcomes ELSE {w[i].model_calls[1]}

(* C12: when both addresses were geocoded, predict_with_addresses answers  *)
(* what POST /predict answers for the request made of the two resolved     *)
(* coordinate pairs and the other fields of the address request unchanged  *)
(* (under the same behaviour of the model), with the one field             *)
(* geocoded_coordinates added to a success body; POST /predict itself      *)
(* answers as that function says.                                          *)
C12_AddressDelegates ==
    \A i \in DOMAIN w :
        /\ ( /\ w[i].endpoint = "/predict-with-address"
             /\ Len(w[i].lookups) = 2
             /\ w[i].lookups[2].result = "coords" ) =>
               LET rest == w[i].lookups[1].out.results[1]
                   del == w[i].lookups[2].out.results[1]
                   others == DOMAIN w[i].request
                                 \ {"restaurant_address", "delivery_address",
                                    "opencage_api_key"}
                   expected == Merge([restaurant_latitude |-> rest.latitude,
                                      restaurant_longitude |-> rest.longitude,
                                      delivery_latitude |-> del.latitude,
                                      delivery_longitude |-> del.longitude],
                                     [k \in others |-> w[i].request[k]])
               IN  /\ w[i].coord_request = expected
                   /\ w[i].pc = "done" =>
                          \E out \in OutcomesOf(i) :
                              \E r \in predict_delivery_time(artifact, expected, out) :
                                  w[i].response =
                                      IF r.status_code = 200
                                      THEN [r EXCEPT !.body.geocoded_coordinates =
                                               [restaurant |-> rest, delivery |-> del]]
                                      ELSE r
        /\ ( /\ w[i].endpoint = "/predict"
             /\ w[i].pc = "done"
             /\ w[i].response.status_code # 422 ) =>
               \E out \in OutcomesOf(i) :
                   w[i].response \in predict_delivery_time(artifact, w[i].request, out)

C12_Witness ==
    \E i \in DOMAIN w :
        /\ w[i].endpoint = "/predict-with-address"
        /\ Succeeded(i)
        /\ w[i].request.order_prepare_time = 12345
        /\ w[i].response.body.geocoded_coordinates = [restaurant |-> Vijay, delivery |-> Edge]
        /\ w[i].response.body.calculated_distance_km = 97800
        /\ w[i].response.body.breakdown.preparation_time_minutes \in round2(12345)

(* C13: under any interleaving of concurrent requests no step modifies the *)
(* loaded artifact (model, encoder, feature-name list), and a step of one  *)
(* request writes nothing but that request's own state.                    *)
C13_ArtifactReadOnly ==
    [][ /\ artifact' = artifact
        /\ DOMAIN w' = DOMAIN w
        /\ \A i, j \in DOMAIN w : (i # j /\ w'[i] # w[i]) => w'[j] = w[j] ]_vars

(* Two requests of different endpoints are in progress at once *)
C13_Witness ==
    \E i, j \in DOMAIN w :
        /\ i # j
        /\ w[i].endpoint = "/predict" /\ w[i].pc = "model"
        /\ w[j].endpoint = "/predict-with-address" /\ w[j].pc = "geocode_delivery"
        /\ artifact.feature_columns # AssembledNames

(* C14: no request is served while the artifact is not loaded: after a     *)
(* failed load no request is ever received or answered, so every health    *)
(* response that exists reports the model as loaded.                       *)
C14_NoServiceWithoutModel ==
    \A i \in DOMAIN w :
        /\ ~artifact.loaded =>
              /\ w[i].pc = "idle"
              /\ w[i].response = NoResponse
              /\ w[i].trace = <<>>
        /\ (w[i].endpoint \in {"/", "/health"} /\ w[i].pc = "done") =>
              /\ artifact.loaded
              /\ w[i].response.status_code = 200
              /\ w[i].response.body.model_loaded

C14_Witness ==
    \E i \in DOMAIN w :
        /\ w[i].endpoint = "/health"
        /\ w[i].pc = "done"
        /\ w[i].response.body.model_loaded
        /\ w[i].response.body.feature_count = Len(artifact.feature_columns)

(* C15: a request with a field outside its declared range or enumeration   *)
(* (either form) is answered 422 by validation, and for it no distance is  *)
(* computed, no address looked up, no features assembled and the model is  *)
(* not invoked.                                                            *)
C15_InvalidNeverComputed ==
    \A i \in DOMAIN w :
        ( /\ w[i].endpoint \in PredictEndpoints
          /\ w[i].request \in InvalidPredictBodies \cup InvalidAddressBodies ) =>
            /\ Failed(i, 422)
            /\ w[i].trace = <<>>
            /\ w[i].lookups = <<>>
            /\ w[i].model_calls = <<>>
            /\ w[i].input_df = <<>>
            /\ w[i].coord_request = Null

(* An address request with hour = 24 has been answered *)
C15_Witness ==
    \E i \in DOMAIN w :
        /\ w[i].endpoint = "/predict-with-address"
        /\ w[i].request.hour = 24
        /\ Failed(i, 422)

(* The calls of geocode_address a request has made, from its trace *)
GeocodeCalls(i) ==
    SelectSeq(w[i].trace, LAMBDA e : e \in {"geocode_address", "geocode_address:restaurant",
                                            "geocode_address:delivery"})

(* C16: each call of geocode_address issues exactly one lookup; a lookup   *)
(* that fails in transport, cannot be read, or finds nothing ends the      *)
(* request with an error and no further lookup, no address is looked up    *)
(* twice, and an address request issues at most two lookups.               *)
C16_OneLookupNoRetry ==
    \A i \in DOMAIN w :
        LET lookups == w[i].lookups
        IN  /\ Len(lookups) = Len(GeocodeCalls(i))
            /\ Len(lookups) <= 2
            /\ w[i].endpoint = "/geocode" => Len(lookups) = 1
            /\ w[i].endpoint \notin {"/geocode", "/predict-with-address"} => lookups = <<>>
            /\ \A k, l \in 1..Len(lookups) : lookups[k].target = lookups[l].target => k = l
            /\ \A k \in 1..Len(lookups) :
                   lookups[k].result # "coords" =>
                       /\ k = Len(lookups)
                       /\ w[i].pc = "done"
                       /\ w[i].response.status_code \in {400, 500}

(* An address request whose delivery lookup timed out after the            *)
(* restaurant's succeeded                                                  *)
C16_Witness ==
    \E i \in DOMAIN w :
        /\ w[i].endpoint = "/predict-with-address"
        /\ Len(w[i].lookups) = 2
        /\ w[i].lookups[2].out.transport # "ok"
        /\ w[i].pc = "done"

(* The outcome of the lookup a finished /geocode request made *)
GeocodeOutcome(i) == w[i].lookups[1].out

GeocodeAnswered(i) == w[i].endpoint = "/geocode" /\ w[i].pc = "done"

(* C17 as stated: whatever the external service does, the standalone       *)
(* geocoding operation returns the {latitude, longitude} pair or a client  *)
(* error (4xx), and nothing else.                                          *)
C17_PairOrClientError ==
    \A i \in DOMAIN w :
        GeocodeAnswered(i) =>
            \/ /\ w[i].response.status_code = 200
               /\ DOMAIN w[i].response.body = {"latitude", "longitude"}
            \/ w[i].response.status_code \in 400..499

(* C17 amended: the standalone geocoding operation returns the pair when   *)
(* the service answers 200 with a result, the client error 400 when the    *)
(* service answers with zero results or a non-success status, and the      *)
(* server error 500 when the lookup fails in transport or its 200 reply    *)
(* cannot be read; it has no other outcome.                                *)
C17_PairClientOrServerError ==
    \A i \in DOMAIN w :
        GeocodeAnswered(i) =>
            LET out == GeocodeOutcome(i)
                response == w[i].response
            IN  /\ Len(w[i].lookups) = 1
                /\ IF out.transport # "ok" \/ (out.status_code = 200 /\ ~out.json)
                   THEN /\ response.status_code = 500
                        /\ response.detail.message = "Geocoding error"
                   ELSE IF out.status_code = 200 /\ out.results # <<>>
                   THEN /\ response.status_code = 200
                        /\ response.body = out.results[1]
                        /\ DOMAIN response.body = {"latitude", "longitude"}
                   ELSE /\ response.status_code = 400
                        /\ response.detail.message =
                               "Geocoding failed - check address and API key"

(* A standalone geocoding request whose lookup timed out has been answered *)
C17_Witness ==
    \E i \in DOMAIN w :
        /\ GeocodeAnswered(i)
        /\ GeocodeOutcome(i).transport = "timeout"
        /\ w[i].response.status_code = 500

(* The value the request gives the feature `name`: 0 for a name the        *)
(* features dict does not hold, the position among the fitted categories   *)
(* for a column of the encoder, the passthrough or derived value otherwise *)
ExpectedFeature(i, name) ==
    LET enc == artifact.encoder
        assembled == features(w[i].coord_request, w[i].distance)
    IN  IF name \notin Range(AssembledNames) THEN Num(0)
        ELSE IF name \in Range(enc.feature_names_in_)
        THEN Num(IndexOf(enc.categories_[name], Col(assembled, name).value.s) - 1)
        ELSE Col(assembled, name).value

(* The request has been through prepare_features_for_prediction *)
Assembled(i) == Has(w[i].trace, "prepare_features_for_prediction")

(* C18: in the frame assembly returns, every declared feature the          *)
(* features dict does not hold is 0 and every feature it holds keeps its   *)
(* passthrough, derived or encoded value; assembly fails only for the      *)
(* encoder's reasons (a column of the encoder missing, a category it was   *)
(* not fitted on), never because a declared feature is absent.             *)
C18_AbsentFeaturesZero ==
    \A i \in DOMAIN w :
        Assembled(i) =>
            LET feature_columns == artifact.feature_columns
                input_df == w[i].input_df
                assembled == features(w[i].coord_request, w[i].distance)
            IN  IF /\ HasColumns(assembled, artifact.encoder.feature_names_in_)
                   /\ KnownCategories(assembled, artifact.encoder)
                THEN /\ Len(input_df) = Len(feature_columns)
                     /\ \A k \in DOMAIN feature_columns :
                            /\ input_df[k].name = feature_columns[k]
                            /\ input_df[k].value = ExpectedFeature(i, feature_columns[k])
                            /\ feature_columns[k] = "traffic_x_distance" =>
                                   input_df[k].value = Num(0)
                            /\ feature_columns[k] = "distance" =>
                                   input_df[k].value = Num(w[i].distance)
                            /\ feature_columns[k] = "City_code" =>
                                   input_df[k].value = Num(0)
                ELSE /\ input_df = <<>>
                     /\ Failed(i, 500)

(* A frame was assembled for a model that declares a feature the features  *)
(* dict does not hold, and the prediction was returned                     *)
C18_Witness ==
    \E i \in DOMAIN w :
        /\ Succeeded(i)
        /\ \E k \in DOMAIN w[i].input_df :
               /\ w[i].input_df[k].name \notin Range(AssembledNames)
               /\ w[i].input_df[k].value = Num(0)
        /\ \E k \in DOMAIN w[i].input_df : w[i].input_df[k].name = "Weather_conditions"

(* The steps of predict_delivery_time, in the order of its body *)
PredictSteps ==
    <<"calculate_distance", "prepare_features_for_prediction", "model.predict", "np.clip">>

(* The steps of predict_delivery_time a request has taken *)
PredictTrace(i) == SelectSeq(w[i].trace, LAMBDA e : e \in Range(PredictSteps))

(* C19: a predict request takes its steps in the order distance, distance  *)
(* check, feature assembly, model, clamp/offset, breakdown; the model is   *)
(* invoked at most once, only for a distance in (0, 100] km and an         *)
(* assembled frame; a request the distance check rejects reaches neither   *)
(* assembly nor the model.                                                 *)
C19_StepOrder ==
    \A i \in DOMAIN w :
        LET steps == PredictTrace(i)
            distance == w[i].distance
        IN  /\ Len(steps) <= Len(PredictSteps)
            /\ \A k \in DOMAIN steps : steps[k] = PredictSteps[k]
            /\ Len(w[i].model_calls) <= 1
            /\ Len(w[i].model_calls) = 1 <=> Has(steps, "model.predict")
            /\ Has(steps, "prepare_features_for_prediction") =>
                   distance > 0 /\ distance <= 100000
            /\ Has(steps, "model.predict") =>
                   /\ distance > 0 /\ distance <= 100000
                   /\ w[i].input_df # <<>>
                   /\ Len(w[i].input_df) = Len(artifact.feature_columns)
            /\ w[i].result # Null => steps = PredictSteps
            /\ (Has(steps, "calculate_distance") /\ (distance <= 0 \/ distance > 100000)) =>
                   /\ steps = <<"calculate_distance">>
                   /\ Failed(i, 400)
                   /\ w[i].input_df = <<>>
                   /\ w[i].model_calls = <<>>
                   /\ w[i].result = Null

(* A request 100.01 km apart was rejected, and so was one at distance 0 *)
C19_Witness ==
    \E i \in DOMAIN w :
        /\ w[i].endpoint = "/predict"
        /\ w[i].distance \in {0, 100010}
        /\ PredictTrace(i) = <<"calculate_distance">>
        /\ Failed(i, 400)

(* C20: an address request looks the restaurant address up first; when     *)
(* that lookup gives no coordinates (nothing found, or the lookup failed)  *)
(* the request ends there with the restaurant's error and the delivery     *)
(* address is never looked up.                                             *)
C20_RestaurantFirst ==
    \A i \in DOMAIN w :
        w[i].endpoint = "/predict-with-address" =>
            LET lookups == w[i].lookups
            IN  /\ Len(lookups) >= 1 => lookups[1].target = "restaurant"
                /\ Len(lookups) >= 2 =>
                       /\ lookups[2].target = "delivery"
                       /\ lookups[1].result = "coords"
                       /\ w[i].rest_coords = lookups[1].out.results[1]
                /\ w[i].pc \notin {"geocode_restaurant", "done"} =>
                       Len(lookups) >= 1 /\ lookups[1].result = "coords"
                /\ (Len(lookups) >= 1 /\ lookups[1].result = "none") =>
                       /\ Len(lookups) = 1
                       /\ w[i].trace = <<"geocode_address:restaurant">>
                       /\ Failed(i, 400)
                       /\ w[i].response.detail.message =
                              "Failed to geocode restaurant address"
                /\ (Len(lookups) >= 1 /\ lookups[1].result = "raise") =>
                       /\ Len(lookups) = 1
                       /\ w[i].trace = <<"geocode_address:restaurant">>
                       /\ Failed(i, 500)
                       /\ w[i].response.detail.message = "Geocoding error"

(* Both ways the restaurant lookup can fail have ended a request: here the *)
(* connection failed                                                       *)
C20_Witness ==
    \E i \in DOMAIN w :
        /\ w[i].endpoint = "/predict-with-address"
        /\ Len(w[i].lookups) = 1
        /\ w[i].lookups[1].out.transport = "connection_error"
        /\ Failed(i, 500)

====
